---- MODULE Spec2Model ----
(***************************************************************************)
(* Model of the GuardianAI rule-based content moderation engine:          *)
(*   app/models.py      Rule / MatchedRule / ModerationResult validation   *)
(*   app/database.py    DatabaseManager (rule store, moderation log)       *)
(*   app/rule_filter.py RuleFilter (scorer, action decider, explanation)   *)
(*   app/guardian_ai.py GuardianAI (moderate_content, batch_moderate)      *)
(*                                                                         *)
(* Scores are kept in tenths (1.4 is 14): every score the scorer can       *)
(* produce is severity + 0.5*k + 0.2*n, a multiple of 0.1.                 *)
(* A pattern is a tuple of characters; a content is abstracted to the set  *)
(* of patterns that occur in it under the store's text search / re.search. *)
(***************************************************************************)
EXTENDS Integers, Sequences, FiniteSets, TLC

VARIABLES
    rules,            \* the rules table, in id order (row i has id i)
    moderation_logs,  \* the moderation_logs table, in insertion order
    last,             \* the last completed call: operation, inputs, outcome
    pc,               \* "idle": the engine serves calls; "batch": it serves
                      \* batches; otherwise the position of the pure
                      \* matching/scoring pipeline or action policy under test
    all_matches,      \* search_content: keyword_matches + regex_matches
    matched_rules,    \* search_content: list(unique_matches.values())
    final_score,      \* _calculate_severity(matched_rules)
    action,           \* _determine_action(final_score)
    explanation,      \* _generate_explanation(matched_rules, final_score, action)
    prev_score,       \* final_score before matched_rules last grew
    probe,            \* a score handed to both action policies
    calls             \* the moderate_content calls in progress side by side:
                      \* for each, its position and its local variables

vars == <<rules, moderation_logs, last, pc, all_matches, matched_rules,
          final_score, action, explanation, prev_score, probe, calls>>

pipeVars == <<pc, all_matches, matched_rules, final_score, action, explanation,
              prev_score>>

----------------------------------------------------------------------------
(* Bounds *)

MaxRules == 2      \* rows in the rules table
MaxLogs == 1       \* rows in the moderation_logs table
MaxSeq == 5        \* length of a combined match sequence under test
MaxProbe == 35     \* largest score (in tenths) handed to the action policies
MaxBatch == 2      \* posts in one batch_moderate call
MaxFaults == 1     \* collaborator failures during one batch_moderate call
MaxCalls == 2      \* moderate_content calls in progress at the same time
MaxElapsed == 1    \* milliseconds on the clock while one call runs

----------------------------------------------------------------------------
(* Values *)

None == "None"

FLAG == "flag"
REVIEW == "review"
BLOCK == "block"
Action == {FLAG, REVIEW, BLOCK}

KEYWORD == "keyword"
REGEX == "regex"
PHRASE == "phrase"
PatternType == {KEYWORD, REGEX, PHRASE}

PostIds == {"p1", "p2"}

\* Patterns that can occur in a content; "(" alone is an invalid regex.
Words == {<<"a">>, <<"b">>}
BadRegex == <<"(">>
Contents == SUBSET Words

ScoreCap == 30     \* 3.0
ScoreFlag == 10    \* 1.0
ScoreBlock == 20   \* 2.0
ContextBonus == 5  \* 0.5
FrequencyStep == 2 \* 0.2
ScoreSevere == 25  \* 2.5
ScoreModerate == 15 \* 1.5

Max(S) == CHOOSE x \in S : \A y \in S : y <= x
Min(S) == CHOOSE x \in S : \A y \in S : x <= y
Min2(a, b) == IF a <= b THEN a ELSE b

RECURSIVE SumSeq(_)
SumSeq(s) == IF s = <<>> THEN 0 ELSE Head(s) + SumSeq(Tail(s))

RECURSIVE SeqsUpTo(_, _)
SeqsUpTo(S, n) ==
    IF n = 0 THEN {<<>>}
    ELSE LET shorter == SeqsUpTo(S, n - 1)
         IN  shorter \cup {Append(s, x) : s \in {t \in shorter : Len(t) = n - 1}, x \in S}

----------------------------------------------------------------------------
(* app/models.py: Rule *)

RECURSIVE LStrip(_)
LStrip(p) == IF p # <<>> /\ Head(p) = " " THEN LStrip(Tail(p)) ELSE p

RECURSIVE RStrip(_)
RStrip(p) ==
    IF p # <<>> /\ p[Len(p)] = " " THEN RStrip(SubSeq(p, 1, Len(p) - 1)) ELSE p

Strip(p) == RStrip(LStrip(p))

\* A validate_pattern that checks the trimmed pattern but keeps the raw one.
validate_pattern_untrimmed(v) ==
    IF Strip(v) = <<>> THEN [ok |-> FALSE, value |-> "Pattern cannot be empty"]
    ELSE [ok |-> TRUE, value |-> v]

\* Rule.validate_pattern: empty after trimming is rejected, else trimmed.
validate_pattern(v) ==
    IF Strip(v) = <<>> THEN [ok |-> FALSE, value |-> "Pattern cannot be empty"]
    ELSE [ok |-> TRUE, value |-> Strip(v)]

\* RuleCreate(**rule_data): field validation of Rule.
RuleCreate(rule_data) ==
    IF /\ validate_pattern(rule_data.pattern).ok
       /\ rule_data.pattern_type \in PatternType
       /\ rule_data.severity \in 1..3
       /\ rule_data.action \in Action
    THEN [ok |-> TRUE,
          rule |-> [rule_data EXCEPT !.pattern = validate_pattern(rule_data.pattern).value]]
    ELSE [ok |-> FALSE, rule |-> None]

RuleData(p, t, c, s, a, d, act) ==
    [pattern |-> p, pattern_type |-> t, category |-> c, severity |-> s,
     action |-> a, description |-> d, is_active |-> act]

\* Rule data handed to add_rule: well-formed and malformed.
KeywordFraud == RuleData(<<"a">>, KEYWORD, "fraud", 3, BLOCK, "d1", TRUE)
PhraseSpam == RuleData(<<" ", "b">>, PHRASE, "spam", 1, REVIEW, "", TRUE)
RegexFraud == RuleData(<<"a">>, REGEX, "fraud", 2, FLAG, "d3", TRUE)
RegexInvalid == RuleData(BadRegex, REGEX, "spam", 3, BLOCK, "", TRUE)
KeywordInactive == RuleData(<<"b">>, KEYWORD, "spam", 2, FLAG, "d5", FALSE)
RegexInactive == RuleData(<<"b">>, REGEX, "abuse", 1, REVIEW, "d6", FALSE)

GoodRuleData ==
    {KeywordFraud, PhraseSpam, RegexFraud, RegexInvalid, KeywordInactive,
     RegexInactive}

BadRuleData ==
    { RuleData(<<" ">>, KEYWORD, "spam", 1, REVIEW, "", TRUE),
      RuleData(<<"a">>, KEYWORD, "spam", 4, REVIEW, "", TRUE),
      RuleData(<<"a">>, "glob", "spam", 1, REVIEW, "", TRUE),
      RuleData(<<"a">>, KEYWORD, "spam", 1, "approve", "", TRUE) }

RuleInputs == GoodRuleData \cup BadRuleData

----------------------------------------------------------------------------
(* app/database.py: DatabaseManager *)

\* The columns search_content selects from a rules row.
Row(r) ==
    [id |-> r.id, pattern |-> r.pattern, pattern_type |-> r.pattern_type,
     category |-> r.category, severity |-> r.severity, action |-> r.action,
     description |-> r.description]

\* INSERT INTO rules ... RETURNING id: the serial id of the new row.
db_add_rule(table, rule) ==
    [rule_id |-> Len(table) + 1,
     table |-> Append(table, [id |-> Len(table) + 1] @@ rule)]

\* ORDER BY severity DESC, created_at DESC; rows are created in id order.
RECURSIVE OrderBySeverity(_)
OrderBySeverity(rows) ==
    IF rows = {} THEN <<>>
    ELSE LET first == CHOOSE r \in rows :
                          \A q \in rows : \/ q.severity < r.severity
                                           \/ (q.severity = r.severity /\ q.id <= r.id)
         IN  <<first>> \o OrderBySeverity(rows \ {first})

\* DatabaseManager.get_rules_by_category: the active rules of a category.
db_get_rules_by_category(table, category) ==
    OrderBySeverity({table[i] : i \in {j \in 1..Len(table) :
                                          /\ table[j].category = category
                                          /\ table[j].is_active}})

\* The categories of the rule data in the order the store collates them.
CategoryCollation == <<"abuse", "fraud", "spam">>

CategoryRank(category) ==
    CHOOSE i \in 1..Len(CategoryCollation) : CategoryCollation[i] = category

\* ORDER BY category, severity DESC; rows that tie come in id order.
RECURSIVE OrderByCategory(_)
OrderByCategory(rows) ==
    IF rows = {} THEN <<>>
    ELSE LET first ==
                 CHOOSE r \in rows :
                     \A q \in rows :
                         \/ CategoryRank(r.category) < CategoryRank(q.category)
                         \/ /\ r.category = q.category
                            /\ \/ q.severity < r.severity
                               \/ (q.severity = r.severity /\ r.id <= q.id)
         IN  <<first>> \o OrderByCategory(rows \ {first})

\* A listing of the rules without the is_active condition.
db_get_all_rules(table) ==
    OrderByCategory({table[i] : i \in 1..Len(table)})

\* DatabaseManager.get_all_active_rules
db_get_all_active_rules(table) ==
    OrderByCategory({table[i] : i \in {j \in 1..Len(table) : table[j].is_active}})

\* The store's text search of a keyword/phrase pattern against the content.
ts_match(pattern, content) == pattern \in content

\* re.search(pattern, content, re.IGNORECASE): re.error on an invalid pattern.
re_search(pattern, content) ==
    [error |-> pattern = BadRegex, found |-> pattern \in content]

\* The rows of the table in the order the store returns them.
Fetch(table, ord) == [i \in 1..Len(ord) |-> table[ord[i]]]

\* A first query without the is_active condition.
keyword_query_all(table, ord, content) ==
    LET hit(r) == /\ r.pattern_type \in {KEYWORD, PHRASE}
                  /\ ts_match(r.pattern, content)
        rows == SelectSeq(Fetch(table, ord), hit)
    IN  [i \in 1..Len(rows) |-> Row(rows[i])]

\* First query of search_content.
keyword_query(table, ord, content) ==
    LET hit(r) == /\ r.is_active
                  /\ r.pattern_type \in {KEYWORD, PHRASE}
                  /\ ts_match(r.pattern, content)
        rows == SelectSeq(Fetch(table, ord), hit)
    IN  [i \in 1..Len(rows) |-> Row(rows[i])]

\* A second query without the pattern_type condition.
regex_query_any_type(table, ord) ==
    LET hit(r) == r.is_active
        rows == SelectSeq(Fetch(table, ord), hit)
    IN  [i \in 1..Len(rows) |-> Row(rows[i])]

\* Second query of search_content.
regex_query(table, ord) ==
    LET hit(r) == r.is_active /\ r.pattern_type = REGEX
        rows == SelectSeq(Fetch(table, ord), hit)
    IN  [i \in 1..Len(rows) |-> Row(rows[i])]

\* A loop over regex_rules that an invalid pattern ends: the rules before it
\* are kept, the rules after it are never tried.
regex_filter_abort(regex_rules, content) ==
    LET bad == {i \in 1..Len(regex_rules) :
                    re_search(regex_rules[i].pattern, content).error}
        hit(rule) == re_search(rule.pattern, content).found
    IN  IF bad = {} THEN SelectSeq(regex_rules, hit)
        ELSE SelectSeq(SubSeq(regex_rules, 1, Min(bad) - 1), hit)

\* The Python loop over regex_rules: an invalid pattern is skipped.
regex_filter(regex_rules, content) ==
    LET hit(rule) == /\ ~re_search(rule.pattern, content).error
                     /\ re_search(rule.pattern, content).found
    IN  SelectSeq(regex_rules, hit)

\* The deduplication loop of search_content; unique keeps insertion order.
RECURSIVE Deduplicate(_, _)
Deduplicate(all, unique) ==
    IF all = <<>> THEN unique
    ELSE LET match == Head(all)
             seen == {i \in 1..Len(unique) : unique[i].id = match.id}
         IN  IF seen = {}
             THEN Deduplicate(Tail(all), Append(unique, [match_count |-> 1] @@ match))
             ELSE LET i == CHOOSE j \in seen : TRUE
                  IN  Deduplicate(Tail(all),
                                  [unique EXCEPT ![i].match_count = @ + 1])

\* A deduplication that never counts the repeats.
RECURSIVE DeduplicateUncounted(_, _)
DeduplicateUncounted(all, unique) ==
    IF all = <<>> THEN unique
    ELSE IF \E i \in 1..Len(unique) : unique[i].id = Head(all).id
         THEN DeduplicateUncounted(Tail(all), unique)
         ELSE DeduplicateUncounted(Tail(all),
                                   Append(unique, [match_count |-> 1] @@ Head(all)))

unique_matches_uncounted(all) == DeduplicateUncounted(all, <<>>)

\* A deduplication that merges a repeat only into the entry added last.
RECURSIVE DeduplicateAdjacent(_, _)
DeduplicateAdjacent(all, unique) ==
    IF all = <<>> THEN unique
    ELSE IF unique # <<>> /\ unique[Len(unique)].id = Head(all).id
         THEN DeduplicateAdjacent(Tail(all),
                                  [unique EXCEPT ![Len(unique)].match_count = @ + 1])
         ELSE DeduplicateAdjacent(Tail(all),
                                  Append(unique, [match_count |-> 1] @@ Head(all)))

unique_matches_adjacent(all) == DeduplicateAdjacent(all, <<>>)

\* An aggregation that hands the entries back last-seen first.
unique_matches_reversed(all) ==
    LET unique == Deduplicate(all, <<>>)
    IN  [i \in 1..Len(unique) |-> unique[Len(unique) + 1 - i]]

unique_matches(all) == Deduplicate(all, <<>>)

\* search_content from "Combine and deduplicate matches" on; all is
\* keyword_matches + regex_matches.
combine(all) == [raises |-> FALSE, all |-> all, value |-> unique_matches(all)]

\* search_content: raises when the connection or a query fails.
search_content(table, ord, content, store_fails) ==
    IF store_fails
    THEN [raises |-> TRUE, all |-> <<>>, value |-> <<>>]
    ELSE combine(keyword_query(table, ord, content)
                   \o regex_filter(regex_query(table, ord), content))

\* The row log_moderation inserts.
log_row(post_id, content, result) ==
    [post_id |-> post_id, content |-> content,
     matched_rules |-> result.matched_rules,
     final_score |-> result.score, action |-> result.action,
     processing_time_ms |-> result.processing_time_ms]

----------------------------------------------------------------------------
(* app/rule_filter.py: RuleFilter *)

\* rule.get('match_count', 1)
get_match_count(rule) ==
    IF "match_count" \in DOMAIN rule THEN rule.match_count ELSE 1

\* _calculate_severity granting the context bonus for repeated matches of
\* one rule as well as for several rules.
_calculate_severity_repeat_bonus(matched) ==
    IF matched = <<>> THEN 0
    ELSE LET base_score == Max({matched[i].severity : i \in 1..Len(matched)}) * 10
             total == SumSeq([i \in 1..Len(matched) |-> get_match_count(matched[i])])
             context_bonus == IF total > 1 THEN ContextBonus ELSE 0
             frequency_penalty ==
                 SumSeq([i \in 1..Len(matched) |->
                             (get_match_count(matched[i]) - 1) * FrequencyStep])
         IN  Min2(base_score + context_bonus + frequency_penalty, ScoreCap)

\* _calculate_severity without the cap at the maximum severity.
_calculate_severity_uncapped(matched) ==
    IF matched = <<>> THEN 0
    ELSE LET base_score == Max({matched[i].severity : i \in 1..Len(matched)}) * 10
             context_bonus == IF Len(matched) > 1 THEN ContextBonus ELSE 0
             frequency_penalty ==
                 SumSeq([i \in 1..Len(matched) |->
                             (get_match_count(matched[i]) - 1) * FrequencyStep])
         IN  base_score + context_bonus + frequency_penalty

\* _calculate_severity subtracting the frequency penalty instead of adding it.
_calculate_severity_discount(matched) ==
    IF matched = <<>> THEN 0
    ELSE LET base_score == Max({matched[i].severity : i \in 1..Len(matched)}) * 10
             context_bonus == IF Len(matched) > 1 THEN ContextBonus ELSE 0
             frequency_penalty ==
                 SumSeq([i \in 1..Len(matched) |->
                             (get_match_count(matched[i]) - 1) * FrequencyStep])
         IN  Min2(base_score + context_bonus - frequency_penalty, ScoreCap)

\* _calculate_severity counting the severity levels from 0.
_calculate_severity_from_zero(matched) ==
    IF matched = <<>> THEN 0
    ELSE LET base_score ==
                 (Max({matched[i].severity : i \in 1..Len(matched)}) - 1) * 10
             context_bonus == IF Len(matched) > 1 THEN ContextBonus ELSE 0
             frequency_penalty ==
                 SumSeq([i \in 1..Len(matched) |->
                             (get_match_count(matched[i]) - 1) * FrequencyStep])
         IN  Min2(base_score + context_bonus + frequency_penalty, ScoreCap)

\* _calculate_severity, in tenths.
_calculate_severity(matched) ==
    IF matched = <<>> THEN 0
    ELSE LET base_score == Max({matched[i].severity : i \in 1..Len(matched)}) * 10
             context_bonus == IF Len(matched) > 1 THEN ContextBonus ELSE 0
             frequency_penalty ==
                 SumSeq([i \in 1..Len(matched) |->
                             (get_match_count(matched[i]) - 1) * FrequencyStep])
             score == base_score + context_bonus + frequency_penalty
         IN  Min2(score, ScoreCap)

\* _determine_action with the lower boundary of the flag band excluded.
_determine_action_inclusive(score) ==
    IF score = 0 THEN REVIEW
    ELSE IF score <= ScoreFlag THEN REVIEW
    ELSE IF score < ScoreBlock THEN FLAG
    ELSE BLOCK

\* _determine_action with the block band starting at the severe tier.
_determine_action_block_at_severe(score) ==
    IF score = 0 THEN REVIEW
    ELSE IF score < ScoreFlag THEN REVIEW
    ELSE IF score < ScoreSevere THEN FLAG
    ELSE BLOCK

\* _determine_action
_determine_action(score) ==
    IF score = 0 THEN REVIEW
    ELSE IF score < ScoreFlag THEN REVIEW
    ELSE IF score < ScoreBlock THEN FLAG
    ELSE BLOCK

\* The keys of the categories dict of _generate_explanation, in insertion order.
RECURSIVE category_keys(_, _)
category_keys(matched, keys) ==
    IF matched = <<>> THEN keys
    ELSE LET category == Head(matched).category
         IN  IF \E i \in 1..Len(keys) : keys[i] = category
             THEN category_keys(Tail(matched), keys)
             ELSE category_keys(Tail(matched), Append(keys, category))

SafeExplanation == [kind |-> "safe"]

\* _generate_explanation without the early return for an empty match list.
_generate_explanation_unguarded(matched, score, act) ==
    LET categories == category_keys(matched, <<>>)
    IN  [kind |-> "violation",
         headline |-> IF Len(categories) = 1
                      THEN [form |-> "multiple_rules", category |-> categories[1],
                            count |-> Len(matched)]
                      ELSE [form |-> "multiple_categories",
                            categories |-> categories],
         severity |-> IF score >= ScoreSevere THEN "severe"
                      ELSE IF score >= ScoreModerate THEN "moderate"
                      ELSE "mild",
         closing |-> IF act = BLOCK THEN "blocked"
                     ELSE IF act = FLAG THEN "flagged"
                     ELSE "marked_for_review"]

\* _generate_explanation with the severe tier starting above 2.5.
_generate_explanation_strict(matched, score, act) ==
    IF matched = <<>> THEN SafeExplanation
    ELSE LET categories == category_keys(matched, <<>>)
             headline ==
                 IF Len(categories) = 1
                 THEN IF Len(matched) = 1
                      THEN [form |-> "single", category |-> categories[1],
                            cite |-> IF matched[1].description # ""
                                     THEN matched[1].description
                                     ELSE matched[1].pattern]
                      ELSE [form |-> "multiple_rules", category |-> categories[1],
                            count |-> Len(matched)]
                 ELSE [form |-> "multiple_categories", categories |-> categories]
             severity == IF score > ScoreSevere THEN "severe"
                         ELSE IF score >= ScoreModerate THEN "moderate"
                         ELSE "mild"
             closing == IF act = BLOCK THEN "blocked"
                        ELSE IF act = FLAG THEN "flagged"
                        ELSE "marked_for_review"
         IN  [kind |-> "violation", headline |-> headline,
              severity |-> severity, closing |-> closing]

\* _generate_explanation: the three parts that are joined into the text.
_generate_explanation(matched, score, act) ==
    IF matched = <<>> THEN SafeExplanation
    ELSE LET categories == category_keys(matched, <<>>)
             headline ==
                 IF Len(categories) = 1
                 THEN IF Len(matched) = 1
                      THEN [form |-> "single", category |-> categories[1],
                            cite |-> IF matched[1].description # ""
                                     THEN matched[1].description
                                     ELSE matched[1].pattern]
                      ELSE [form |-> "multiple_rules", category |-> categories[1],
                            count |-> Len(matched)]
                 ELSE [form |-> "multiple_categories", categories |-> categories]
             severity == IF score >= ScoreSevere THEN "severe"
                         ELSE IF score >= ScoreModerate THEN "moderate"
                         ELSE "mild"
             closing == IF act = BLOCK THEN "blocked"
                        ELSE IF act = FLAG THEN "flagged"
                        ELSE "marked_for_review"
         IN  [kind |-> "violation", headline |-> headline,
              severity |-> severity, closing |-> closing]

\* The number of rules of all_rules whose column has the value key.
CountOf(all_rules, column, key) ==
    Cardinality({i \in 1..Len(all_rules) : all_rules[i][column] = key})

ColumnValues(all_rules, column) ==
    {all_rules[i][column] : i \in 1..Len(all_rules)}

\* The keys severity_counts starts with.
SeverityKeys == {1, 2, 3}

\* The counting loop of get_rule_statistics over the rows it was handed.
rule_statistics_of(all_rules) ==
    [total_rules |-> Len(all_rules),
     category_distribution |->
         [category \in ColumnValues(all_rules, "category") |->
              CountOf(all_rules, "category", category)],
     severity_distribution |->
         [severity \in SeverityKeys \cup ColumnValues(all_rules, "severity") |->
              CountOf(all_rules, "severity", severity)],
     pattern_type_distribution |->
         [pattern_type \in PatternType \cup ColumnValues(all_rules, "pattern_type") |->
              CountOf(all_rules, "pattern_type", pattern_type)]]

\* The except branch of get_rule_statistics.
rule_statistics_except ==
    [total_rules |-> 0,
     category_distribution |-> [category \in {} |-> 0],
     severity_distribution |-> [severity \in {} |-> 0],
     pattern_type_distribution |-> [pattern_type \in {} |-> 0]]

\* RuleFilter.get_rule_statistics: a failure of the store is logged and the
\* empty statistics are returned.
get_rule_statistics(table, store_fails) ==
    IF store_fails THEN rule_statistics_except
    ELSE rule_statistics_of(db_get_all_active_rules(table))

\* An except branch of analyze_content that drops the failure reason.
analyze_content_except_silent(e, processing_time) ==
    [score |-> 0, action |-> REVIEW, matched_rules |-> <<>>,
     processing_time_ms |-> processing_time,
     explanation |-> SafeExplanation]

\* The except branch of analyze_content.
analyze_content_except(e, processing_time) ==
    [score |-> 0, action |-> REVIEW, matched_rules |-> <<>>,
     processing_time_ms |-> processing_time,
     explanation |-> [kind |-> "analysis_failed", reason |-> e]]

\* analyze_content after the action is determined: explanation and result.
analysis_explained(matched, score, act, processing_time) ==
    [score |-> score, action |-> act, matched_rules |-> matched,
     processing_time_ms |-> processing_time,
     explanation |-> _generate_explanation(matched, score, act)]

\* analyze_content after the score is calculated.
analysis_scored(matched, score, processing_time) ==
    analysis_explained(matched, score, _determine_action(score), processing_time)

\* analyze_content after search_content has returned or raised;
\* processing_time is int((time.time() - start_time) * 1000) as read in the
\* branch that returns.
analysis_of(found, processing_time) ==
    IF found.raises
    THEN analyze_content_except("search_content", processing_time)
    ELSE analysis_scored(found.value, _calculate_severity(found.value),
                         processing_time)

\* analyze_content
analyze_content(table, ord, content, store_fails, processing_time) ==
    analysis_of(search_content(table, ord, content, store_fails), processing_time)

----------------------------------------------------------------------------
(* app/models.py: MatchedRule, ModerationResult *)

\* MatchedRule(**d): rule_id, pattern, category, severity and action are
\* required fields; other keys of d are ignored; match_count defaults to 1.
MatchedRule(d) ==
    IF {"rule_id", "pattern", "category", "severity", "action"} \subseteq DOMAIN d
    THEN [ok |-> TRUE,
          value |-> [rule_id |-> d.rule_id, pattern |-> d.pattern,
                     category |-> d.category, severity |-> d.severity,
                     action |-> d.action,
                     description |-> IF "description" \in DOMAIN d
                                     THEN d.description ELSE None,
                     match_count |-> get_match_count(d)]]
    ELSE [ok |-> FALSE, value |-> None]

\* A validator of the action field that keeps the action it is passed.
determine_action_passthrough(v, score) == v

\* A validator of the action field whose block band starts above 2.0.
determine_action_block_above(v, score) ==
    IF score = 0 THEN REVIEW
    ELSE IF score < ScoreFlag THEN REVIEW
    ELSE IF score <= ScoreBlock THEN FLAG
    ELSE BLOCK

\* ModerationResult.determine_action: the validator of the action field.
determine_action(v, score) ==
    IF score = 0 THEN REVIEW
    ELSE IF score < ScoreFlag THEN REVIEW
    ELSE IF score < ScoreBlock THEN FLAG
    ELSE BLOCK

\* ModerationResult(...): validates score, action and each matched rule.
ModerationResult(post_id, content, score, act, matched, processing_time_ms, explained) ==
    IF /\ score >= 0 /\ score <= ScoreCap
       /\ act \in Action
       /\ \A i \in 1..Len(matched) : MatchedRule(matched[i]).ok
    THEN [ok |-> TRUE,
          value |-> [post_id |-> post_id, content |-> content, score |-> score,
                     action |-> determine_action(act, score),
                     matched_rules |->
                         [i \in 1..Len(matched) |-> MatchedRule(matched[i]).value],
                     processing_time_ms |-> processing_time_ms,
                     explanation |-> explained]]
    ELSE [ok |-> FALSE, value |-> None]

----------------------------------------------------------------------------
(* app/guardian_ai.py: GuardianAI *)

Return(v) == [kind |-> "return", value |-> v]
Raise(e) == [kind |-> "raise", value |-> e]

\* moderate_content without its except branch: the failure propagates.
moderate_content_reraise(post_id, content, e) == Raise(e)

\* The except branch of moderate_content.
moderate_content_except(post_id, content, e) ==
    LET result == ModerationResult(post_id, content, 0, REVIEW, <<>>, 0,
                                   [kind |-> "moderation_failed", reason |-> e])
    IN  IF result.ok THEN Return(result.value) ELSE Raise("ValidationError")

\* moderate_content from the log write on.
moderate_logged(post_id, content, analysis, result, trace, log_fails) ==
    IF ~result.ok
    THEN [outcome |-> moderate_content_except(post_id, content, "ValidationError"),
          written |-> <<>>,
          trace |-> [log_attempted |-> FALSE, log_raised |-> FALSE] @@ trace]
    ELSE [outcome |-> IF log_fails
                      THEN moderate_content_except(post_id, content, "log_moderation")
                      ELSE Return(result.value),
          written |-> IF log_fails THEN <<>>
                      ELSE <<log_row(post_id, content, analysis)>>,
          trace |-> [log_attempted |-> TRUE, log_raised |-> log_fails] @@ trace]

\* moderate_content from the construction of the result on.
moderate_built(post_id, content, analysis, result, trace, log_fails) ==
    moderate_logged(post_id, content, analysis, result,
                    [built |-> result.ok] @@ trace, log_fails)

\* moderate_content after analyze_content has returned.
moderate_analysed(post_id, content, found, analysis, log_fails) ==
    moderate_built(post_id, content, analysis,
                   ModerationResult(post_id, content, analysis.score,
                                    analysis.action, analysis.matched_rules,
                                    analysis.processing_time_ms,
                                    analysis.explanation),
                   [search_raised |-> found.raises, all |-> found.all,
                    analysis |-> analysis],
                   log_fails)

moderate_found(post_id, content, found, log_fails, processing_time) ==
    moderate_analysed(post_id, content, found,
                      analysis_of(found, processing_time), log_fails)

\* moderate_content: the outcome, the rows written to the log, and a trace.
moderate_content(table, ord, post_id, content, store_fails, log_fails, processing_time) ==
    moderate_found(post_id, content,
                   search_content(table, ord, content, store_fails), log_fails,
                   processing_time)

\* A loop body of batch_moderate without its except branch.
batch_moderate_except_reraise(post, e) == Raise(e)

\* The except branch of the loop body of batch_moderate.
batch_moderate_except(post, e) ==
    LET result == ModerationResult(
                      IF "id" \in DOMAIN post THEN post.id ELSE "unknown",
                      IF "content" \in DOMAIN post THEN post.content ELSE {},
                      0, REVIEW, <<>>, 0,
                      [kind |-> "batch_failed", reason |-> e])
    IN  IF result.ok THEN Return(result.value) ELSE Raise("ValidationError")

\* The loop body of batch_moderate after moderate_content has ended with m.
batch_call(post, m) ==
    [outcome |-> IF m.outcome.kind = "raise"
                 THEN batch_moderate_except(post, m.outcome.value)
                 ELSE m.outcome,
     written |-> m.written]

\* One iteration of the loop of batch_moderate.
batch_item(table, ord, post, store_fails, log_fails, processing_time) ==
    IF "id" \notin DOMAIN post \/ "content" \notin DOMAIN post
    THEN [outcome |-> batch_moderate_except(post, "KeyError"), written |-> <<>>]
    ELSE batch_call(post, moderate_content(table, ord, post.id, post.content,
                                           store_fails, log_fails,
                                           processing_time))

RECURSIVE Flatten(_)
Flatten(ss) == IF ss = <<>> THEN <<>> ELSE Head(ss) \o Flatten(Tail(ss))

\* The iterations of batch_moderate up to the first one that raises (if any).
batch_results(items, raising) ==
    IF raising = {}
    THEN [outcome |-> Return([i \in 1..Len(items) |-> items[i].outcome.value]),
          written |-> Flatten([i \in 1..Len(items) |-> items[i].written])]
    ELSE [outcome |-> items[Min(raising)].outcome,
          written |-> Flatten([i \in 1..Min(raising) |-> items[i].written])]

batch_items(items) ==
    batch_results(items, {i \in 1..Len(items) : items[i].outcome.kind = "raise"})

\* batch_moderate: store_at and log_at are the positions at which the store
\* lookup and the log write fail; every analysis reads processing_time off
\* the clock.
batch_moderate(table, ord, posts, store_at, log_at, processing_time) ==
    batch_items([i \in 1..Len(posts) |->
                    batch_item(table, ord, posts[i], i \in store_at, i \in log_at,
                               processing_time)])

\* add_rule after the validation of the rule data.
add_validated(table, rule, store_fails) ==
    IF ~rule.ok THEN [outcome |-> Raise("ValidationError"), table |-> table]
    ELSE IF store_fails THEN [outcome |-> Raise("db"), table |-> table]
    ELSE [outcome |-> Return(Len(table) + 1),
          table |-> db_add_rule(table, rule.rule).table]

\* add_rule: validation, then the insert; every failure is re-raised.
add_rule(table, rule_data, store_fails) ==
    add_validated(table, RuleCreate(rule_data), store_fails)

\* GuardianAI.get_rules_by_category: a failure of the store is logged and
\* an empty list is returned.
get_rules_by_category(table, category, store_fails) ==
    IF store_fails THEN Return(<<>>)
    ELSE Return(db_get_rules_by_category(table, category))

----------------------------------------------------------------------------
(* The engine as a state machine: one action per caller-facing operation *)

\* The orders in which the store can return n rows.
Perms(n) == {p \in [1..n -> 1..n] : \A i, j \in 1..n : p[i] = p[j] => i = j}

\* Post dictionaries handed to batch_moderate, some without 'id' or 'content'.
BatchPosts ==
    { [id |-> "p1", content |-> {<<"a">>}],
      [id |-> "p2", content |-> {<<"a">>, <<"b">>}],
      [content |-> {<<"b">>}],
      [id |-> "p1"] }

\* Categories handed to get_rules_by_category.
Categories == {"fraud", "spam"}

NoCall == [op |-> "none"]

Init ==
    /\ rules = <<>>
    /\ moderation_logs = <<>>
    /\ last = NoCall
    /\ pc = "idle"
    /\ all_matches = <<>>
    /\ matched_rules = <<>>
    /\ final_score = None
    /\ action = None
    /\ explanation = None
    /\ prev_score = None
    /\ probe = None
    /\ calls = <<>>

AddRuleDone(rule_data, store_fails, r) ==
    /\ rules' = r.table
    /\ last' = [op |-> "add_rule", rule_data |-> rule_data,
                store_fails |-> store_fails, outcome |-> r.outcome]

AddRule ==
    /\ pc = "idle"
    /\ Len(rules) < MaxRules
    /\ \E rule_data \in RuleInputs, store_fails \in BOOLEAN :
          AddRuleDone(rule_data, store_fails,
                      add_rule(rules, rule_data, store_fails))
    /\ UNCHANGED <<moderation_logs, pipeVars, probe, calls>>

\* A moderate_content whose lookup switches off the rules it has matched.
ModerateContentDone_disabling(post_id, content, store_fails, m) ==
    /\ Len(moderation_logs) + Len(m.written) <= MaxLogs
    /\ moderation_logs' = moderation_logs \o m.written
    /\ rules' = [i \in 1..Len(rules) |->
                    [rules[i] EXCEPT !.is_active =
                        @ /\ ~\E j \in 1..Len(m.trace.all) :
                                  m.trace.all[j].id = rules[i].id]]
    /\ last' = [op |-> "moderate_content", post_id |-> post_id,
                content |-> content, store_fails |-> store_fails,
                outcome |-> m.outcome, trace |-> m.trace]

\* The effect of moderate_content: its queries on the rules table are
\* SELECTs, its only write is the INSERT of log_moderation.
ModerateContentDone(post_id, content, store_fails, m) ==
    /\ Len(moderation_logs) + Len(m.written) <= MaxLogs
    /\ moderation_logs' = moderation_logs \o m.written
    /\ rules' = rules
    /\ last' = [op |-> "moderate_content", post_id |-> post_id,
                content |-> content, store_fails |-> store_fails,
                outcome |-> m.outcome, trace |-> m.trace]

\* A call as one step: it ends within the millisecond in which it began
\* (the clock is followed step by step in ConcSpec).
ModerateContent ==
    /\ pc = "idle"
    /\ \E post_id \in PostIds, content \in Contents, ord \in Perms(Len(rules)),
          store_fails \in BOOLEAN, log_fails \in BOOLEAN :
          ModerateContentDone(post_id, content, store_fails,
              moderate_content(rules, ord, post_id, content, store_fails,
                               log_fails, 0))
    /\ UNCHANGED <<pipeVars, probe, calls>>

BatchModerateDone(posts, store_at, log_at, b) ==
    /\ moderation_logs' = moderation_logs \o b.written
    /\ last' = [op |-> "batch_moderate", posts |-> posts, store_at |-> store_at,
                log_at |-> log_at, outcome |-> b.outcome]

BatchModerate ==
    /\ pc = "batch"
    /\ Len(moderation_logs) < MaxLogs
    /\ \E posts \in SeqsUpTo(BatchPosts, MaxBatch), ord \in Perms(Len(rules)) :
       \E store_at \in SUBSET (1..Len(posts)), log_at \in SUBSET (1..Len(posts)) :
          /\ Cardinality(store_at) + Cardinality(log_at) <= MaxFaults
          /\ BatchModerateDone(posts, store_at, log_at,
                 batch_moderate(rules, ord, posts, store_at, log_at, 0))
    /\ UNCHANGED <<rules, pipeVars, probe, calls>>

GetRulesByCategoryDone(category, store_fails, outcome) ==
    last' = [op |-> "get_rules_by_category", category |-> category,
             store_fails |-> store_fails, outcome |-> outcome]

GetRulesByCategory ==
    /\ pc = "idle"
    /\ \E category \in Categories, store_fails \in BOOLEAN :
          GetRulesByCategoryDone(category, store_fails,
              get_rules_by_category(rules, category, store_fails))
    /\ UNCHANGED <<rules, moderation_logs, pipeVars, probe, calls>>

GetRuleStatisticsDone(store_fails, outcome) ==
    last' = [op |-> "get_rule_statistics", store_fails |-> store_fails,
             outcome |-> outcome]

GetRuleStatistics ==
    /\ pc = "idle"
    /\ \E store_fails \in BOOLEAN :
          GetRuleStatisticsDone(store_fails,
                                Return(get_rule_statistics(rules, store_fails)))
    /\ UNCHANGED <<rules, moderation_logs, pipeVars, probe, calls>>

Next == AddRule \/ ModerateContent \/ GetRulesByCategory \/ GetRuleStatistics

Spec == Init /\ [][Next]_vars

----------------------------------------------------------------------------
(* batch_moderate over the rule tables that add_rule can build *)

RECURSIVE TablesOfLen(_)
TablesOfLen(n) ==
    IF n = 0 THEN {<<>>}
    ELSE {db_add_rule(t, RuleCreate(d).rule).table :
              t \in TablesOfLen(n - 1), d \in GoodRuleData}

Stores == UNION {TablesOfLen(n) : n \in 0..MaxRules}

\* Tables built by zero, one and two add_rule calls.
BatchStores ==
    LET t1 == add_rule(<<>>, KeywordFraud, FALSE).table
        t2 == add_rule(t1, PhraseSpam, FALSE).table
    IN  {<<>>, t1, t2}

BatchInit ==
    /\ rules \in BatchStores
    /\ moderation_logs = <<>>
    /\ last = NoCall
    /\ pc = "batch"
    /\ all_matches = <<>>
    /\ matched_rules = <<>>
    /\ final_score = None
    /\ action = None
    /\ explanation = None
    /\ prev_score = None
    /\ probe = None
    /\ calls = <<>>

BatchNext == BatchModerate

BatchSpec == BatchInit /\ [][BatchNext]_vars

----------------------------------------------------------------------------
(* The matching/scoring pipeline as pure functions of a match sequence *)

StoreRows(table) == {Row(table[i]) : i \in 1..Len(table)}

PipeInit ==
    /\ rules \in Stores
    /\ all_matches \in SeqsUpTo(StoreRows(rules), MaxSeq)
    /\ pc = "aggregate"
    /\ moderation_logs = <<>>
    /\ last = NoCall
    /\ matched_rules = <<>>
    /\ final_score = None
    /\ action = None
    /\ explanation = None
    /\ prev_score = None
    /\ probe = None
    /\ calls = <<>>

\* search_content from "Combine and deduplicate matches" on.
Aggregate ==
    /\ pc = "aggregate"
    /\ matched_rules' = unique_matches(all_matches)
    /\ pc' = "score"
    /\ UNCHANGED <<rules, moderation_logs, last, all_matches, final_score,
                   action, explanation, prev_score, probe, calls>>

CalculateSeverity ==
    /\ pc = "score"
    /\ final_score' = _calculate_severity(matched_rules)
    /\ pc' = "decide"
    /\ UNCHANGED <<rules, moderation_logs, last, all_matches, matched_rules,
                   action, explanation, prev_score, probe, calls>>

DetermineAction ==
    /\ pc = "decide"
    /\ action' = _determine_action(final_score)
    /\ pc' = "explain"
    /\ UNCHANGED <<rules, moderation_logs, last, all_matches, matched_rules,
                   final_score, explanation, prev_score, probe, calls>>

GenerateExplanation ==
    /\ pc = "explain"
    /\ explanation' = _generate_explanation(matched_rules, final_score, action)
    /\ pc' = "done"
    /\ UNCHANGED <<rules, moderation_logs, last, all_matches, matched_rules,
                   final_score, action, prev_score, probe, calls>>

\* Score the list again after one more rule, of higher severity than all
\* the rules in it, has matched.
AddHigherRule ==
    /\ pc = "done"
    /\ \E row \in StoreRows(rules) :
          /\ \A i \in 1..Len(matched_rules) :
                /\ matched_rules[i].id # row.id
                /\ matched_rules[i].severity < row.severity
          /\ matched_rules' = Append(matched_rules, [match_count |-> 1] @@ row)
    /\ prev_score' = final_score
    /\ final_score' = _calculate_severity(matched_rules')
    /\ action' = _determine_action(final_score')
    /\ explanation' = _generate_explanation(matched_rules', final_score', action')
    /\ pc' = "added"
    /\ UNCHANGED <<rules, moderation_logs, last, all_matches, probe, calls>>

\* Score the list again after a rule in it has matched once more.
RepeatMatch ==
    /\ pc = "done"
    /\ \E i \in 1..Len(matched_rules) :
          matched_rules' = [matched_rules EXCEPT ![i].match_count = @ + 1]
    /\ prev_score' = final_score
    /\ final_score' = _calculate_severity(matched_rules')
    /\ action' = _determine_action(final_score')
    /\ explanation' = _generate_explanation(matched_rules', final_score', action')
    /\ pc' = "repeated"
    /\ UNCHANGED <<rules, moderation_logs, last, all_matches, probe, calls>>

PipeNext ==
    \/ Aggregate
    \/ CalculateSeverity
    \/ DetermineAction
    \/ GenerateExplanation
    \/ AddHigherRule
    \/ RepeatMatch

PipeSpec == PipeInit /\ [][PipeNext]_vars

----------------------------------------------------------------------------
(* The two action policies on every score *)

ProbeInit ==
    /\ rules = <<>>
    /\ moderation_logs = <<>>
    /\ last = NoCall
    /\ pc = "probe"
    /\ all_matches = <<>>
    /\ matched_rules = <<>>
    /\ final_score = None
    /\ action = None
    /\ explanation = None
    /\ prev_score = None
    /\ probe = None
    /\ calls = <<>>

ProbeScore ==
    /\ pc \in {"probe", "probed"}
    /\ pc' = "probed"
    /\ \E post_id \in PostIds, score \in 0..MaxProbe, v \in Action :
          probe' = [score |-> score, passed |-> v,
                    decided |-> _determine_action(score),
                    result |-> ModerationResult(post_id, {}, score, v, <<>>, 0,
                                                SafeExplanation)]
    /\ UNCHANGED <<rules, moderation_logs, last, all_matches, matched_rules,
                   final_score, action, explanation, prev_score, calls>>

ProbeNext == ProbeScore

ProbeSpec == ProbeInit /\ [][ProbeNext]_vars

----------------------------------------------------------------------------
(* moderate_content calls running side by side against one rules table:   *)
(* each call has its own local variables and its own store connections;   *)
(* the calls share the rules table, which they read, and the              *)
(* moderation_logs table, to which they append.                           *)

\* The rules table the calls run against.
ConcStores ==
    {<<>>, add_rule(add_rule(<<>>, KeywordFraud, FALSE).table, PhraseSpam, FALSE).table}

\* The post id of the c-th call.
PostIdOf(c) == IF c % 2 = 1 THEN "p1" ELSE "p2"

\* The local variables of a moderate_content call on entry; clock is
\* (time.time() - start_time) * 1000, failed_at the clock at its last failure.
NewCall(post_id, content) ==
    [pc |-> "start", post_id |-> post_id, content |-> content, clock |-> 0,
     failed_at |-> None, found |-> None, analysis |-> None, result |-> None,
     log_raised |-> FALSE, outcome |-> None]

\* A filter that keeps the analysis in a field shared by all calls: a call
\* reads the analysis that another call has left there.
call_analysis_shared(cs, c) ==
    LET others == {d \in DOMAIN cs : d # c /\ cs[d].pc \in {"analysed", "built", "returned"}}
    IN  IF others = {} THEN cs[c].analysis
        ELSE cs[CHOOSE d \in others : TRUE].analysis

\* The local variable analysis of call c.
call_analysis(cs, c) == cs[c].analysis

ConcInit ==
    /\ rules \in ConcStores
    /\ \E contents \in [1..MaxCalls -> Contents] :
          calls = [c \in 1..MaxCalls |-> NewCall(PostIdOf(c), contents[c])]
    /\ pc = "concurrent"
    /\ moderation_logs = <<>>
    /\ last = NoCall
    /\ all_matches = <<>>
    /\ matched_rules = <<>>
    /\ final_score = None
    /\ action = None
    /\ explanation = None
    /\ prev_score = None
    /\ probe = None

\* analyze_content, l.24-28: the call looks the content up in the rule store
\* while the clock runs.
SearchContent ==
    /\ pc = "concurrent"
    /\ \E c \in DOMAIN calls, ord \in Perms(Len(rules)), store_fails \in BOOLEAN :
       \E now \in calls[c].clock..MaxElapsed :
          /\ calls[c].pc = "start"
          /\ calls' = [calls EXCEPT
                          ![c].found = search_content(rules, ord, calls[c].content,
                                                      store_fails),
                          ![c].clock = now,
                          ![c].failed_at = IF store_fails THEN now ELSE None,
                          ![c].pc = "searched"]
    /\ UNCHANGED <<rules, moderation_logs, last, pipeVars, probe>>

\* analyze_content, l.31-58: score, action and explanation, or the except
\* branch when the lookup raised; either way the clock is read.
AnalyzeContent ==
    /\ pc = "concurrent"
    /\ \E c \in DOMAIN calls :
          /\ calls[c].pc = "searched"
          /\ calls' = [calls EXCEPT
                          ![c].analysis = analysis_of(calls[c].found,
                                                      calls[c].clock),
                          ![c].pc = "analysed"]
    /\ UNCHANGED <<rules, moderation_logs, last, pipeVars, probe>>

\* The call after the construction of its result has ended with result.
BuildResultDone(c, result) ==
    calls' = IF result.ok
             THEN [calls EXCEPT ![c].result = result, ![c].pc = "built"]
             ELSE [calls EXCEPT
                      ![c].outcome = moderate_content_except(
                                         calls[c].post_id, calls[c].content,
                                         "ValidationError"),
                      ![c].failed_at = calls[c].clock,
                      ![c].pc = "returned"]

BuildResultFrom(c, analysis) ==
    BuildResultDone(c, ModerationResult(calls[c].post_id, calls[c].content,
                                        analysis.score, analysis.action,
                                        analysis.matched_rules,
                                        analysis.processing_time_ms,
                                        analysis.explanation))

\* moderate_content, l.51-59: the result is built from the analysis; a
\* validation failure takes the call to its except branch.
BuildResult ==
    /\ pc = "concurrent"
    /\ \E c \in DOMAIN calls :
          /\ calls[c].pc = "analysed"
          /\ BuildResultFrom(c, call_analysis(calls, c))
    /\ UNCHANGED <<rules, moderation_logs, last, pipeVars, probe>>

\* moderate_content, l.62-70: the log write on a connection of its own,
\* then the return; a failed write takes the call to its except branch.
LogModeration ==
    /\ pc = "concurrent"
    /\ \E c \in DOMAIN calls, log_fails \in BOOLEAN :
       \E now \in calls[c].clock..MaxElapsed :
          /\ calls[c].pc = "built"
          /\ IF log_fails
             THEN /\ calls' = [calls EXCEPT
                                  ![c].outcome = moderate_content_except(
                                                     calls[c].post_id,
                                                     calls[c].content,
                                                     "log_moderation"),
                                  ![c].log_raised = TRUE,
                                  ![c].clock = now,
                                  ![c].failed_at = now,
                                  ![c].pc = "returned"]
                  /\ UNCHANGED moderation_logs
             ELSE /\ moderation_logs' =
                         Append(moderation_logs,
                                log_row(calls[c].post_id, calls[c].content,
                                        calls[c].analysis))
                  /\ calls' = [calls EXCEPT
                                  ![c].outcome = Return(calls[c].result.value),
                                  ![c].clock = now,
                                  ![c].pc = "returned"]
    /\ UNCHANGED <<rules, last, pipeVars, probe>>

ConcNext == SearchContent \/ AnalyzeContent \/ BuildResult \/ LogModeration

ConcSpec == ConcInit /\ [][ConcNext]_vars

----------------------------------------------------------------------------
(* One moderate_content call statement by statement: pc is the statement  *)
(* that runs next, calls[1] holds the call's inputs and the locals that   *)
(* are no pipeline variable.                                              *)

\* The call on entry.
OneCall(post_id, content) ==
    [post_id |-> post_id, content |-> content, analysis |-> None,
     result |-> None, outcome |-> None]

CallInit ==
    /\ rules \in Stores
    /\ \E post_id \in PostIds, content \in Contents :
          calls = <<OneCall(post_id, content)>>
    /\ pc = "keyword"
    /\ moderation_logs = <<>>
    /\ last = NoCall
    /\ all_matches = <<>>
    /\ matched_rules = <<>>
    /\ final_score = None
    /\ action = None
    /\ explanation = None
    /\ prev_score = None
    /\ probe = None

\* The except branch of analyze_content: the clock is read, the degraded
\* analysis is returned to moderate_content.
AnalysisFailed(processing_time) ==
    /\ calls' = [calls EXCEPT
                    ![1].analysis = analyze_content_except("search_content",
                                                           processing_time)]
    /\ pc' = "build"
    /\ UNCHANGED all_matches

\* search_content, l.156-164: the first query.
KeywordPhase ==
    /\ pc = "keyword"
    /\ \E ord \in Perms(Len(rules)), store_fails \in BOOLEAN,
          processing_time \in 0..MaxElapsed :
          IF store_fails
          THEN AnalysisFailed(processing_time)
          ELSE /\ all_matches' = keyword_query(rules, ord, calls[1].content)
               /\ pc' = "regex"
               /\ UNCHANGED calls
    /\ UNCHANGED <<rules, moderation_logs, last, matched_rules, final_score,
                   action, explanation, prev_score, probe>>

\* search_content, l.167-186: the second query, the regex loop and
\* all_matches = keyword_matches + regex_matches.
RegexPhase ==
    /\ pc = "regex"
    /\ \E ord \in Perms(Len(rules)), store_fails \in BOOLEAN,
          processing_time \in 0..MaxElapsed :
          IF store_fails
          THEN AnalysisFailed(processing_time)
          ELSE /\ all_matches' = all_matches
                                  \o regex_filter(regex_query(rules, ord),
                                                  calls[1].content)
               /\ pc' = "aggregate"
               /\ UNCHANGED calls
    /\ UNCHANGED <<rules, moderation_logs, last, matched_rules, final_score,
                   action, explanation, prev_score, probe>>

\* A clock read that does not wait for the explanation.
StampTime_early ==
    /\ pc \in {"explain", "done"}
    /\ \E processing_time \in 0..MaxElapsed :
          calls' = [calls EXCEPT
                       ![1].analysis = [score |-> final_score, action |-> action,
                                        matched_rules |-> matched_rules,
                                        processing_time_ms |-> processing_time,
                                        explanation |-> SafeExplanation]]
    /\ pc' = "build"
    /\ UNCHANGED <<rules, moderation_logs, last, all_matches, matched_rules,
                   final_score, action, explanation, prev_score, probe>>

\* analyze_content, l.39-47: the clock is read and the analysis returned.
StampTime ==
    /\ pc = "done"
    /\ \E processing_time \in 0..MaxElapsed :
          calls' = [calls EXCEPT
                       ![1].analysis = [score |-> final_score, action |-> action,
                                        matched_rules |-> matched_rules,
                                        processing_time_ms |-> processing_time,
                                        explanation |-> explanation]]
    /\ pc' = "build"
    /\ UNCHANGED <<rules, moderation_logs, last, all_matches, matched_rules,
                   final_score, action, explanation, prev_score, probe>>

\* The call after the construction of its result has ended with result.
ConstructResultDone(result) ==
    IF result.ok
    THEN /\ calls' = [calls EXCEPT ![1].result = result]
         /\ pc' = "log"
    ELSE /\ calls' = [calls EXCEPT
                         ![1].outcome = moderate_content_except(
                                            calls[1].post_id, calls[1].content,
                                            "ValidationError")]
         /\ pc' = "returned"

ConstructResultFrom(analysis) ==
    ConstructResultDone(ModerationResult(calls[1].post_id, calls[1].content,
                                         analysis.score, analysis.action,
                                         analysis.matched_rules,
                                         analysis.processing_time_ms,
                                         analysis.explanation))

\* moderate_content, l.51-59.
ConstructResult ==
    /\ pc = "build"
    /\ ConstructResultFrom(calls[1].analysis)
    /\ UNCHANGED <<rules, moderation_logs, last, all_matches, matched_rules,
                   final_score, action, explanation, prev_score, probe>>

\* A log write whose row stays in the log when the write raises.
WriteLog_row_kept ==
    /\ pc = "log"
    /\ \E log_fails \in BOOLEAN :
          /\ moderation_logs' =
                 Append(moderation_logs,
                        log_row(calls[1].post_id, calls[1].content,
                                calls[1].analysis))
          /\ IF log_fails
             THEN /\ calls' = [calls EXCEPT
                                  ![1].outcome = moderate_content_except(
                                                     calls[1].post_id,
                                                     calls[1].content,
                                                     "log_moderation")]
                  /\ pc' = "returned"
             ELSE /\ pc' = "return"
                  /\ UNCHANGED calls
    /\ UNCHANGED <<rules, last, all_matches, matched_rules, final_score,
                   action, explanation, prev_score, probe>>

\* moderate_content, l.62.
WriteLog ==
    /\ pc = "log"
    /\ \E log_fails \in BOOLEAN :
          IF log_fails
          THEN /\ calls' = [calls EXCEPT
                               ![1].outcome = moderate_content_except(
                                                  calls[1].post_id,
                                                  calls[1].content,
                                                  "log_moderation")]
               /\ pc' = "returned"
               /\ UNCHANGED moderation_logs
          ELSE /\ moderation_logs' =
                      Append(moderation_logs,
                             log_row(calls[1].post_id, calls[1].content,
                                     calls[1].analysis))
               /\ pc' = "return"
               /\ UNCHANGED calls
    /\ UNCHANGED <<rules, last, all_matches, matched_rules, final_score,
                   action, explanation, prev_score, probe>>

\* moderate_content, l.70.
ReturnResult ==
    /\ pc = "return"
    /\ calls' = [calls EXCEPT ![1].outcome = Return(calls[1].result.value)]
    /\ pc' = "returned"
    /\ UNCHANGED <<rules, moderation_logs, last, all_matches, matched_rules,
                   final_score, action, explanation, prev_score, probe>>

CallNext ==
    \/ KeywordPhase
    \/ RegexPhase
    \/ Aggregate
    \/ CalculateSeverity
    \/ DetermineAction
    \/ GenerateExplanation
    \/ StampTime
    \/ ConstructResult
    \/ WriteLog
    \/ ReturnResult

CallSpec == CallInit /\ [][CallNext]_vars

----------------------------------------------------------------------------
(* The engine, its batch entry point and its pure parts side by side *)

\* Init, BatchInit, PipeInit or ProbeInit, told apart by pc.
EngineInit ==
    /\ pc \in {"idle", "batch", "aggregate", "probe"}
    /\ rules \in (IF pc = "aggregate" THEN Stores
                  ELSE IF pc = "batch" THEN BatchStores
                  ELSE {<<>>})
    /\ all_matches \in (IF pc = "aggregate"
                        THEN SeqsUpTo(StoreRows(rules), MaxSeq)
                        ELSE {<<>>})
    /\ moderation_logs = <<>>
    /\ last = NoCall
    /\ matched_rules = <<>>
    /\ final_score = None
    /\ action = None
    /\ explanation = None
    /\ prev_score = None
    /\ probe = None
    /\ calls = <<>>

EngineNext == Next \/ BatchNext \/ PipeNext \/ ProbeNext

EngineSpec == EngineInit /\ [][EngineNext]_vars

----------------------------------------------------------------------------
(* Properties *)

Moderated == last.op = "moderate_content"
Returned == Moderated /\ last.outcome.kind = "return"

\* The action band of a score, as the action table of the design states it.
Band(score) ==
    CASE score < 10 -> REVIEW
      [] score >= 10 /\ score < 20 -> FLAG
      [] score >= 20 -> BLOCK

IsModerationResult(r) ==
    /\ DOMAIN r = {"post_id", "content", "score", "action", "matched_rules",
                   "processing_time_ms", "explanation"}
    /\ r.action \in Action

\* C1: moderate_content always returns a ModerationResult and never raises,
\* whatever fails inside: the store lookup, the construction of the result
\* or the log write.
C1_NeverRaises ==
    Moderated =>
        /\ last.outcome.kind = "return"
        /\ IsModerationResult(last.outcome.value)
        /\ last.outcome.value.post_id = last.post_id

\* C1 witness: a call in which the store lookup and the log write both failed.
C1_Witness ==
    /\ Returned
    /\ last.trace.search_raised
    /\ last.trace.log_raised

\* C1 witness of the third failure: the result object could not be built.
C1_WitnessBuildFailure ==
    /\ Returned
    /\ ~last.trace.built
    /\ last.outcome.value.explanation.kind = "moderation_failed"

FailureExplanation(e) ==
    \/ e.kind = "analysis_failed" /\ e.reason = "search_content"
    \/ e.kind = "moderation_failed" /\ e.reason = "log_moderation"

\* C2: when search_content raises, the returned result has score 0.0, action
\* review, no matched rules and an explanation carrying the failure reason.
C2_StoreFailureDegrades ==
    (Moderated /\ last.trace.search_raised) =>
        /\ last.outcome.kind = "return"
        /\ last.outcome.value.score = 0
        /\ last.outcome.value.action = REVIEW
        /\ last.outcome.value.matched_rules = <<>>
        /\ FailureExplanation(last.outcome.value.explanation)
        /\ ~last.trace.log_raised =>
               last.outcome.value.explanation.kind = "analysis_failed"

\* C2 witness: the store lookup failed with rules in the table and the
\* degraded analysis was logged and returned.
C2_Witness ==
    /\ Returned
    /\ last.trace.search_raised
    /\ ~last.trace.log_raised
    /\ rules # <<>>
    /\ last.outcome.value.explanation =
           [kind |-> "analysis_failed", reason |-> "search_content"]

NoCollaboratorFailed ==
    Moderated /\ ~last.trace.search_raised /\ ~last.trace.log_raised

MatchedIds(matches) == {matches[i].id : i \in 1..Len(matches)}

\* C3: when no collaborator fails and at least one rule matches, the returned
\* result carries the scorer's score over the aggregated matches, the action
\* of that score's band and one MatchedRule per distinct matched rule, with
\* the row id as rule_id.
C3_MatchesReachResult ==
    (NoCollaboratorFailed /\ last.trace.all # <<>>) =>
        /\ last.outcome.kind = "return"
        /\ last.outcome.value.score =
               _calculate_severity(last.trace.analysis.matched_rules)
        /\ last.outcome.value.action = Band(last.outcome.value.score)
        /\ {last.outcome.value.matched_rules[i].rule_id :
                i \in 1..Len(last.outcome.value.matched_rules)}
             = MatchedIds(last.trace.all)
        /\ Len(last.outcome.value.matched_rules)
             = Cardinality(MatchedIds(last.trace.all))

\* C4: when no rule matches and no collaborator fails, the result has score
\* 0.0, action review, no matched rules and the fixed safe explanation.
C4_NoMatchIsSafe ==
    (NoCollaboratorFailed /\ last.trace.all = <<>>) =>
        /\ last.outcome.kind = "return"
        /\ last.outcome.value.score = 0
        /\ last.outcome.value.action = REVIEW
        /\ last.outcome.value.matched_rules = <<>>
        /\ last.outcome.value.explanation = [kind |-> "safe"]

\* C4 witness: a content matching none of the active rules of a non-empty
\* table was classified and logged.
C4_Witness ==
    /\ NoCollaboratorFailed
    /\ last.trace.all = <<>>
    /\ \E i \in 1..Len(rules) : rules[i].is_active
    /\ last.outcome.value.explanation = [kind |-> "safe"]
    /\ moderation_logs # <<>>

Scored == pc \in {"decide", "explain", "done", "added", "repeated"}

Severities(matches) == {matches[i].severity : i \in 1..Len(matches)}

Repeats(matches) ==
    SumSeq([i \in 1..Len(matches) |-> matches[i].match_count]) - Len(matches)

\* The score formula of the design, before the cap.
Uncapped(matches) ==
    10 * Max(Severities(matches))
      + (IF Cardinality(MatchedIds(matches)) > 1 THEN 5 ELSE 0)
      + 2 * Repeats(matches)

\* C5: for a non-empty list of aggregated matches the scorer returns
\* min(max severity + (0.5 if more than one distinct rule) + 0.2 * sum of
\* (match_count - 1), 3.0); one severity-1 rule with match_count 3 scores 1.4
\* and is flagged.
C5_ScoreFormula ==
    (Scored /\ matched_rules # <<>>) =>
        /\ final_score = IF Uncapped(matched_rules) < 30
                         THEN Uncapped(matched_rules) ELSE 30
        /\ (/\ Len(matched_rules) = 1
            /\ matched_rules[1].severity = 1
            /\ matched_rules[1].match_count = 3) =>
               /\ final_score = 14
               /\ pc # "decide" => action = FLAG

\* C5 witness: one severity-1 rule that matched three times was scored 1.4
\* and flagged.
C5_Witness ==
    /\ pc = "done"
    /\ Len(matched_rules) = 1
    /\ matched_rules[1].severity = 1
    /\ matched_rules[1].match_count = 3
    /\ final_score = 14
    /\ action = FLAG

Probed == pc = "probed"

ReturnedResults ==
    IF last.op = "moderate_content" /\ last.outcome.kind = "return"
    THEN {last.outcome.value}
    ELSE IF last.op = "batch_moderate" /\ last.outcome.kind = "return"
    THEN {last.outcome.value[i] : i \in 1..Len(last.outcome.value)}
    ELSE {}

BuiltResults ==
    IF Probed /\ probe.result.ok THEN {probe.result.value} ELSE {}

\* C6: the scorer returns a value in [0.0, 3.0] for every list of matches,
\* and every ModerationResult has 0 <= score <= 3.
C6_ScoreBounded ==
    /\ Scored => (final_score >= 0 /\ final_score <= 30)
    /\ last.op = "moderate_content" =>
           (last.trace.analysis.score >= 0 /\ last.trace.analysis.score <= 30)
    /\ \A r \in ReturnedResults \cup BuiltResults : r.score >= 0 /\ r.score <= 30

\* C6 witness: a match list whose uncapped sum exceeds 3.0 was scored 3.0.
C6_Witness ==
    /\ Scored
    /\ matched_rules # <<>>
    /\ Uncapped(matched_rules) > 30
    /\ final_score = 30

\* C7: the score never decreases when a rule of higher severity than every
\* rule in the list is added, nor when the match_count of a rule in the
\* list is incremented.
C7_Monotonic ==
    pc \in {"added", "repeated"} => final_score >= prev_score

\* C7 witness: a higher-severity rule was added to a non-empty list and the
\* score rose.
C7_Witness ==
    /\ pc = "added"
    /\ Len(matched_rules) > 1
    /\ final_score > prev_score

\* C7 second witness: a repeat of a rule raised the score.
C7_WitnessRepeat ==
    /\ pc = "repeated"
    /\ final_score > prev_score

\* C8: every score in [0, 3.0] maps to exactly one action: review below 1,
\* flag from 1 up to but excluding 2, block from 2 on.
C8_ActionBands ==
    (Probed /\ probe.score <= 30) =>
        /\ probe.decided \in Action
        /\ probe.decided = REVIEW <=> probe.score < 10
        /\ probe.decided = FLAG <=> (probe.score >= 10 /\ probe.score < 20)
        /\ probe.decided = BLOCK <=> probe.score >= 20

\* C8 witness: the boundary score 1.0 was decided as flag.
C8_Witness ==
    /\ Probed
    /\ probe.score = 10
    /\ probe.decided = FLAG

Occurrences(matches, id) == Cardinality({j \in 1..Len(matches) : matches[j].id = id})

Aggregated == pc \in {"score", "decide", "explain", "done"}

\* C10: search_content returns exactly one entry per distinct rule id of the
\* combined sequence, with match_count the number of occurrences of that id;
\* an empty combined sequence yields an empty result.
C10_Aggregation ==
    Aggregated =>
        /\ MatchedIds(matched_rules) = MatchedIds(all_matches)
        /\ Len(matched_rules) = Cardinality(MatchedIds(all_matches))
        /\ \A i \in 1..Len(matched_rules) :
              /\ matched_rules[i].match_count
                   = Occurrences(all_matches, matched_rules[i].id)
              /\ matched_rules[i].match_count >= 1
        /\ all_matches = <<>> => matched_rules = <<>>

\* C10 witness: a combined sequence with two rules, one of them repeated,
\* was aggregated.
C10_Witness ==
    /\ Aggregated
    /\ Len(matched_rules) = 2
    /\ Len(all_matches) > 2
    /\ \E i \in 1..2 : matched_rules[i].match_count > 1

\* The sequence seq read in the order p.
Permuted(seq, p) == [i \in 1..Len(seq) |-> seq[p[i]]]

MatchCounts(matched) ==
    {<<matched[i].id, matched[i].match_count>> : i \in 1..Len(matched)}

SameAggregate(other) ==
    /\ Len(other) = Len(matched_rules)
    /\ MatchedIds(other) = MatchedIds(matched_rules)
    /\ MatchCounts(other) = MatchCounts(matched_rules)
    /\ _calculate_severity(other) = final_score

\* C11: the aggregation does not depend on the order of the combined match
\* sequence: every permutation of all_matches aggregates to the same set of
\* rule ids, with the same match_count for each id, and to the same score.
C11_OrderIndependent ==
    pc = "done" =>
        \A p \in Perms(Len(all_matches)) :
            SameAggregate(unique_matches(Permuted(all_matches, p)))

\* Two rules matched, one of them twice with the other in between.
C11_Witness ==
    /\ pc = "done"
    /\ Len(all_matches) = 3
    /\ all_matches[1].id = all_matches[3].id
    /\ all_matches[1].id # all_matches[2].id
    /\ Len(matched_rules) = 2

SearchReturned == Moderated /\ ~last.trace.search_raised

\* The active regex rules of the table whose pattern compiles / does not.
ValidRegexRules == {i \in 1..Len(rules) : /\ rules[i].is_active
                                           /\ rules[i].pattern_type = REGEX
                                           /\ rules[i].pattern # BadRegex}
InvalidRegexRules == {i \in 1..Len(rules) : /\ rules[i].is_active
                                             /\ rules[i].pattern_type = REGEX
                                             /\ rules[i].pattern = BadRegex}

\* C12: an active regex rule whose pattern does not compile is skipped: the
\* lookup raises only when the store fails, every valid active regex rule
\* whose pattern occurs in the content is returned, and no invalid rule is.
C12_InvalidRegexSkipped ==
    Moderated =>
        /\ last.trace.search_raised <=> last.store_fails
        /\ ~last.trace.search_raised =>
              /\ \A i \in ValidRegexRules :
                    rules[i].pattern \in last.content
                        => i \in MatchedIds(last.trace.analysis.matched_rules)
              /\ \A i \in InvalidRegexRules :
                    i \notin MatchedIds(last.trace.analysis.matched_rules)

\* An invalid regex rule is stored before a valid one that matches.
C12_Witness ==
    /\ SearchReturned
    /\ \E i \in InvalidRegexRules, j \in ValidRegexRules :
          /\ i < j
          /\ rules[j].pattern \in last.content
          /\ j \in MatchedIds(last.trace.analysis.matched_rules)

\* C13: a failure of the log write does not change the classification
\* handed to the caller: moderate_content still returns the score, action,
\* matched rules and explanation that analyze_content computed.
C13_LogFailureKeepsClassification ==
    (Moderated /\ last.trace.log_raised) =>
        /\ last.outcome.kind = "return"
        /\ last.outcome.value.score = last.trace.analysis.score
        /\ last.outcome.value.action = last.trace.analysis.action
        /\ Len(last.outcome.value.matched_rules)
              = Len(last.trace.analysis.matched_rules)
        /\ last.outcome.value.explanation = last.trace.analysis.explanation

Batched == last.op = "batch_moderate"

\* The i-th post of the batch lacks a key, or a collaborator fails on it.
Failing(i) ==
    \/ "id" \notin DOMAIN last.posts[i]
    \/ "content" \notin DOMAIN last.posts[i]
    \/ i \in last.store_at
    \/ i \in last.log_at

\* What moderate_content returns for the post alone, with no failure.
Alone(post) ==
    {moderate_content(rules, ord, post.id, post.content, FALSE, FALSE,
                      0).outcome.value :
        ord \in Perms(Len(rules))}

\* C14: batch_moderate returns one result per post, in the order of the
\* posts; the i-th result carries the id of the i-th post; a failing post
\* gets a degraded result (score 0, review) at its own position and the
\* results of the other posts are what moderate_content returns for them.
C14_BatchIsolation ==
    Batched =>
        /\ last.outcome.kind = "return"
        /\ Len(last.outcome.value) = Len(last.posts)
        /\ \A i \in 1..Len(last.posts) :
              /\ "id" \in DOMAIN last.posts[i]
                    => last.outcome.value[i].post_id = last.posts[i].id
              /\ Failing(i) => /\ last.outcome.value[i].score = 0
                               /\ last.outcome.value[i].action = REVIEW
              /\ ~Failing(i) => last.outcome.value[i] \in Alone(last.posts[i])

\* The first post of two has no id; the second is classified as usual.
C14_Witness ==
    /\ Batched
    /\ Len(last.posts) = 2
    /\ "id" \notin DOMAIN last.posts[1]
    /\ ~Failing(2)
    /\ last.outcome.kind = "return"
    /\ last.outcome.value[1].explanation.kind = "batch_failed"
    /\ last.outcome.value[2].post_id = last.posts[2].id

InactiveRules == {i \in 1..Len(rules) : ~rules[i].is_active}

\* The rules table without its inactive rows (the ids are kept).
ActiveRows == LET active(r) == r.is_active IN SelectSeq(rules, active)

\* The analyses of the content against the active rows alone.
ActiveAnalyses ==
    {analyze_content(ActiveRows, ord, last.content, last.store_fails,
                     last.trace.analysis.processing_time_ms) :
        ord \in Perms(Len(ActiveRows))}

\* C15: a rule with is_active = FALSE is invisible to both phases of the
\* lookup: it is in neither the combined matches nor the matched rules, and
\* the score, action and explanation are those of the active rules alone.
\* (The code has no operation that disables a stored rule; a rule is
\* inactive from the add_rule call that stored it.)
C15_InactiveInvisible ==
    Moderated =>
        /\ \A i \in InactiveRules :
              /\ i \notin MatchedIds(last.trace.all)
              /\ i \notin MatchedIds(last.trace.analysis.matched_rules)
        /\ last.trace.analysis \in ActiveAnalyses

\* An inactive rule whose pattern occurs in the classified content.
C15_Witness ==
    /\ SearchReturned
    /\ \E i \in InactiveRules : /\ rules[i].pattern \in last.content
                                 /\ rules[i].pattern_type = REGEX
    /\ \E i \in 1..Len(rules) :
          rules[i].is_active /\ i \in MatchedIds(last.trace.all)

Blank(p) == \A i \in 1..Len(p) : p[i] = " "

\* Rule data that the Rule model must reject.
Malformed(d) ==
    \/ Blank(d.pattern)
    \/ d.severity \notin 1..3
    \/ d.pattern_type \notin {"keyword", "regex", "phrase"}
    \/ d.action \notin {"flag", "review", "block"}

\* stored is raw without its leading and trailing blanks.
Trimmed(raw, stored) ==
    /\ stored # <<>>
    /\ Head(stored) # " "
    /\ stored[Len(stored)] # " "
    /\ \E i, j \in 1..Len(raw) :
          /\ stored = SubSeq(raw, i, j)
          /\ Blank(SubSeq(raw, 1, i - 1))
          /\ Blank(SubSeq(raw, j + 1, Len(raw)))

\* The row is the rule data with the trimmed pattern under the given id.
StoredAs(row, d, id) ==
    /\ row.id = id
    /\ Trimmed(d.pattern, row.pattern)
    /\ \A f \in DOMAIN d \ {"pattern"} : row[f] = d[f]

\* C16: add_rule raises on malformed rule data (blank pattern, severity
\* outside 1..3, unknown pattern type or action) and leaves the rules table
\* as it was; a rule it accepts is well-formed and is appended with its
\* pattern trimmed under a fresh id, which is the id returned.
C16_AddRuleValidates ==
    [][last'.op = "add_rule" =>
          /\ Malformed(last'.rule_data) => /\ last'.outcome.kind = "raise"
                                            /\ rules' = rules
          /\ last'.outcome.kind = "return" =>
                /\ ~Malformed(last'.rule_data)
                /\ Len(rules') = Len(rules) + 1
                /\ SubSeq(rules', 1, Len(rules)) = rules
                /\ StoredAs(rules'[Len(rules')], last'.rule_data,
                            last'.outcome.value)
                /\ \A i \in 1..Len(rules) : rules[i].id # last'.outcome.value]_vars

\* Malformed rule data was rejected while the table held a rule.
C16_Witness ==
    /\ last.op = "add_rule"
    /\ Malformed(last.rule_data)
    /\ last.outcome.kind = "raise"
    /\ rules # <<>>

\* A rule was accepted whose pattern had a blank to trim.
C16_WitnessTrimmed ==
    /\ last.op = "add_rule"
    /\ last.outcome.kind = "return"
    /\ rules[Len(rules)].pattern # last.rule_data.pattern

\* C17: a failure of the rule store during add_rule or during the listing
\* of the rules of a category reaches the caller as a raised failure.
C17_AdminFailuresSurface ==
    (last.op \in {"add_rule", "get_rules_by_category"} /\ last.store_fails)
        => last.outcome.kind = "raise"

Explained == pc \in {"done", "added", "repeated"}

CategoriesOf(matched) == {matched[i].category : i \in 1..Len(matched)}

\* The headline for the matched rules, which belong to the categories cats.
HeadlineFor(h, matched, cats) ==
    IF Cardinality(cats) = 1
    THEN IF Len(matched) = 1
         THEN /\ h.form = "single"
              /\ h.category \in cats
              /\ h.cite = IF matched[1].description = ""
                          THEN matched[1].pattern ELSE matched[1].description
         ELSE /\ h.form = "multiple_rules"
              /\ h.category \in cats
              /\ h.count = Len(matched)
    ELSE /\ h.form = "multiple_categories"
         /\ Len(h.categories) = Cardinality(cats)
         /\ {h.categories[i] : i \in 1..Len(h.categories)} = cats

SeverityTier(score) ==
    IF score >= 25 THEN "severe" ELSE IF score >= 15 THEN "moderate" ELSE "mild"

ClosingFor(act) ==
    IF act = "block" THEN "blocked"
    ELSE IF act = "flag" THEN "flagged" ELSE "marked_for_review"

\* C18: without matches the explanation is the fixed safe message alone;
\* with matches it has exactly three parts: a headline chosen by the
\* category grouping (one rule: its category with its description, or its
\* pattern when the description is empty; k > 1 rules of one category: the
\* category and k; several categories: their names), the severity tier of
\* the score (severe from 2.5, moderate from 1.5, else mild), and the
\* closing sentence of the action.
C18_ExplanationParts ==
    Explained =>
        IF matched_rules = <<>>
        THEN explanation = [kind |-> "safe"]
        ELSE /\ DOMAIN explanation = {"kind", "headline", "severity", "closing"}
             /\ explanation.kind = "violation"
             /\ HeadlineFor(explanation.headline, matched_rules,
                            CategoriesOf(matched_rules))
             /\ explanation.severity = SeverityTier(final_score)
             /\ explanation.closing = ClosingFor(action)

\* One rule without a description, cited by its pattern, in the mild tier.
C18_Witness ==
    /\ pc = "done"
    /\ Len(matched_rules) = 1
    /\ matched_rules[1].description = ""
    /\ explanation.headline.cite = matched_rules[1].pattern
    /\ explanation.severity = "mild"

\* Rules of two categories scoring exactly 2.5: the severe tier.
C18_WitnessSevere ==
    /\ pc = "done"
    /\ final_score = 25
    /\ explanation.headline.form = "multiple_categories"
    /\ explanation.severity = "severe"

\* Two rules of one category.
C18_WitnessCount ==
    /\ pc = "done"
    /\ explanation.kind = "violation"
    /\ explanation.headline.form = "multiple_rules"
    /\ explanation.headline.count = 2

\* Two analyses agree on everything but the time they took.
SameClassification(a, b) ==
    /\ a.score = b.score
    /\ a.action = b.action
    /\ MatchCounts(a.matched_rules) = MatchCounts(b.matched_rules)
    /\ a.explanation = b.explanation

\* C19: the classification of a content against a rules table does not
\* depend on the order in which the store returns the rows: analysing the
\* content again under any other order gives the same score, action, set of
\* matched rules with their match_counts, and explanation.
C19_Reproducible ==
    SearchReturned =>
        \A ord \in Perms(Len(rules)) :
            SameClassification(analyze_content(rules, ord, last.content, FALSE, 0),
                               last.trace.analysis)

\* The orders of the store's rows under which the lookup of the call's
\* content gives what the call found.
OrdersOf(call) ==
    {ord \in Perms(Len(rules)) :
        search_content(rules, ord, call.content, call.found.raises) = call.found}

\* What moderate_content returns when it runs alone on the call's inputs,
\* with the collaborators behaving as they did for the call.
AloneOutcomes(call) ==
    {moderate_content(rules, ord, call.post_id, call.content,
                      call.found.raises, call.log_raised,
                      call.analysis.processing_time_ms).outcome :
        ord \in OrdersOf(call)}

\* C20: moderate_content calls that run side by side against one rules
\* table do not interfere: however their steps interleave, each call
\* returns the result it would return if it ran alone.
C20_NoInterference ==
    \A c \in DOMAIN calls :
        calls[c].pc = "returned" => calls[c].outcome \in AloneOutcomes(calls[c])

\* Two calls on different contents have both returned, the second having
\* written its log row before the first, whose lookup had failed.
C20_Witness ==
    /\ pc = "concurrent"
    /\ \A c \in DOMAIN calls : calls[c].pc = "returned"
    /\ calls[1].content # calls[2].content
    /\ calls[1].post_id # calls[2].post_id
    /\ calls[1].found.raises
    /\ ~calls[2].found.raises
    /\ Len(moderation_logs) >= 2
    /\ moderation_logs[1].post_id = calls[2].post_id
    /\ moderation_logs[2].post_id = calls[1].post_id

\* The call has returned a degraded result: one that states a failure.
ReturnedDegraded(call) ==
    /\ call.pc = "returned"
    /\ call.outcome.value.explanation.kind \in {"analysis_failed", "moderation_failed"}

\* C21: a degraded result carries the partial elapsed time: its
\* processing_time_ms is the time that had passed since the start of the
\* call when the failure happened, whether the store lookup, the
\* construction of the result or the log write failed.
C21_DegradedCarriesElapsed ==
    \A c \in DOMAIN calls :
        ReturnedDegraded(calls[c]) =>
            /\ calls[c].outcome.value.processing_time_ms >= 0
            /\ calls[c].outcome.value.processing_time_ms = calls[c].failed_at

\* C22: classification is read-only on the rules: a moderate_content or
\* batch_moderate call leaves every stored rule as it was, and its only
\* persistent effect is that rows are appended to the moderation log.
C22_ClassificationReadOnly ==
    [][last'.op \in {"moderate_content", "batch_moderate"} =>
          /\ rules' = rules
          /\ Len(moderation_logs') >= Len(moderation_logs)
          /\ SubSeq(moderation_logs', 1, Len(moderation_logs)) = moderation_logs]_vars

\* A content that matches an active stored rule was classified while the
\* log held a row.
C22_Witness ==
    /\ Moderated
    /\ last.trace.all # <<>>
    /\ \E i \in 1..Len(rules) : rules[i].is_active
    /\ moderation_logs # <<>>

\* A batch was classified against stored rules and wrote to the log.
C22_WitnessBatch ==
    /\ Batched
    /\ rules # <<>>
    /\ last.posts # <<>>
    /\ moderation_logs # <<>>

\* The statements of one call in the order of the claim: the two matching
\* phases, aggregation, scoring, the action decision, the explanation, the
\* stamping of the elapsed time, the construction of the result, the log
\* write, the return.
StatementOrder ==
    <<"keyword", "regex", "aggregate", "score", "decide", "explain", "done",
      "build", "log", "return", "returned">>

Place(p) == CHOOSE i \in 1..Len(StatementOrder) : StatementOrder[i] = p

\* C23: within one classification the steps happen in a fixed order: both
\* matching phases before aggregation, aggregation before scoring, scoring
\* before the action decision, the decision before the explanation, the
\* elapsed time stamped after the explanation, the log write after the
\* analysis and before the return. A step is followed by the next one in
\* that order, unless a failed lookup takes the call straight to the
\* construction of a degraded result or a failed construction or log write
\* ends the call; all_matches is written by the matching phases alone,
\* matched_rules by the aggregation alone and the log by the log write alone.
C23_FixedOrder ==
    [][/\ pc' # pc =>
             \/ Place(pc') = Place(pc) + 1
             \/ pc \in {"keyword", "regex"} /\ pc' = "build"
             \/ pc \in {"build", "log"} /\ pc' = "returned"
       /\ all_matches' # all_matches => pc \in {"keyword", "regex"}
       /\ matched_rules' # matched_rules => pc = "aggregate"
       /\ moderation_logs' # moderation_logs => pc = "log"]_vars

\* A call has run through every statement and returned what it logged.
C23_Witness ==
    /\ pc = "returned"
    /\ calls[1].outcome.kind = "return"
    /\ calls[1].outcome.value.explanation.kind = "safe"
    /\ rules # <<>>
    /\ Len(moderation_logs) = 1
    /\ moderation_logs[1].post_id = calls[1].post_id

\* The place at which rule id is seen first in a list of rows.
FirstSeen(rows, id) ==
    CHOOSE i \in 1..Len(rows) :
        /\ rows[i].id = id
        /\ \A j \in 1..(i - 1) : rows[j].id # id

\* The place at which a category is seen first in a list of rows.
FirstOfCategory(rows, category) ==
    CHOOSE i \in 1..Len(rows) :
        /\ rows[i].category = category
        /\ \A j \in 1..(i - 1) : rows[j].category # category

\* C24: the aggregator keeps the rules in the order in which they were
\* first seen, the matches of the indexed query before the regex matches,
\* and the category list of a multi-category explanation follows that order.
C24_FirstSeenOrder ==
    /\ pc \in {"score", "decide", "explain", "done"} =>
          /\ {matched_rules[i].id : i \in 1..Len(matched_rules)}
                = {all_matches[i].id : i \in 1..Len(all_matches)}
          /\ \A i, j \in 1..Len(matched_rules) :
                i < j => FirstSeen(all_matches, matched_rules[i].id)
                           < FirstSeen(all_matches, matched_rules[j].id)
          /\ \A i, j \in 1..Len(matched_rules) :
                /\ matched_rules[i].pattern_type # REGEX
                /\ matched_rules[j].pattern_type = REGEX
                => i < j
    /\ (pc = "done" /\ Len(matched_rules) > 0) =>
          (explanation.headline.form = "multiple_categories" =>
             LET categories == explanation.headline.categories
             IN  /\ {categories[i] : i \in 1..Len(categories)}
                       = {matched_rules[i].category : i \in 1..Len(matched_rules)}
                 /\ \A i, j \in 1..Len(categories) :
                       i < j => FirstOfCategory(matched_rules, categories[i])
                                  < FirstOfCategory(matched_rules, categories[j]))

\* An indexed match and a regex match of two categories were aggregated and
\* explained.
C24_Witness ==
    /\ pc = "done"
    /\ Len(matched_rules) = 2
    /\ matched_rules[1].pattern_type # REGEX
    /\ matched_rules[2].pattern_type = REGEX
    /\ explanation.headline.form = "multiple_categories"
    /\ explanation.headline.categories
          = <<matched_rules[1].category, matched_rules[2].category>>

\* Two indexed matches of two categories were aggregated in the order in
\* which the store returned them.
C24_WitnessIndexed ==
    /\ pc = "done"
    /\ Len(matched_rules) = 2
    /\ matched_rules[1].pattern_type # REGEX
    /\ matched_rules[2].pattern_type # REGEX
    /\ matched_rules[1].id > matched_rules[2].id
    /\ explanation.headline.form = "multiple_categories"

\* The score of a match list whose rules were each seen once: the highest
\* severity, the context bonus for more than one rule, capped.
ScoreWithoutPenalty(matched) ==
    IF matched = <<>> THEN 0
    ELSE Min2(Max({matched[i].severity : i \in 1..Len(matched)}) * 10
                + (IF Len(matched) > 1 THEN ContextBonus ELSE 0),
              ScoreCap)

\* C25: the two matching phases are disjoint and each returns a rule at
\* most once, so every rule that search_content returns has match_count 1
\* and the frequency penalty of a classification is 0.
C25_MatchCountOne ==
    /\ pc \in {"aggregate", "score", "decide", "explain", "done"} =>
          \A i, j \in 1..Len(all_matches) :
              all_matches[i].id = all_matches[j].id => i = j
    /\ pc \in {"score", "decide", "explain", "done"} =>
          \A i \in 1..Len(matched_rules) : matched_rules[i].match_count = 1
    /\ pc \in {"decide", "explain", "done"} =>
          final_score = ScoreWithoutPenalty(matched_rules)

\* A content that an indexed rule and a regex rule match was scored.
C25_Witness ==
    /\ pc = "decide"
    /\ \E i, j \in 1..Len(matched_rules) :
          /\ matched_rules[i].pattern_type = KEYWORD
          /\ matched_rules[j].pattern_type = REGEX
          /\ matched_rules[i].pattern = matched_rules[j].pattern
    /\ final_score > ContextBonus

\* analyze_content has returned to moderate_content.
Analysed == pc \in {"build", "log", "return", "returned"}

AnalysisFailedIn(analysis) == analysis.explanation.kind = "analysis_failed"

\* C26: no classification produces a score strictly between 0 and 1: the
\* score analyze_content returns is 0 or at least 1, its action is review
\* exactly when no rule matched or the analysis failed, and any matched
\* rule yields flag or block.
C26_NoScoreBelowOne ==
    Analysed =>
        LET analysis == calls[1].analysis
        IN  /\ analysis.score = 0 \/ analysis.score >= ScoreFlag
            /\ analysis.action = REVIEW
                  <=> (analysis.matched_rules = <<>> \/ AnalysisFailedIn(analysis))
            /\ analysis.matched_rules # <<>> => analysis.action \in {FLAG, BLOCK}
            /\ analysis.score = 0 <=> analysis.matched_rules = <<>>

\* A single rule of the lowest severity matched: the score is 1.0 and the
\* action is flag.
C26_Witness ==
    /\ Analysed
    /\ Len(calls[1].analysis.matched_rules) = 1
    /\ calls[1].analysis.matched_rules[1].severity = 1
    /\ calls[1].analysis.score = ScoreFlag
    /\ calls[1].analysis.action = FLAG

\* A failed analysis was returned with score 0 and action review.
C26_WitnessFailed ==
    /\ Analysed
    /\ AnalysisFailedIn(calls[1].analysis)
    /\ calls[1].analysis.action = REVIEW

\* C27: for every score in [0, 3.0] the action RuleFilter._determine_action
\* decides is the action the validator of ModerationResult assigns, so that
\* building the result from an analysis never changes the action.
C27_PoliciesAgree ==
    (Probed /\ probe.score <= ScoreCap) =>
        /\ probe.result.ok
        /\ probe.result.value.action = probe.decided
        /\ probe.passed = probe.decided
              => probe.result.value.action = probe.passed

\* The boundary score 2.0 was decided as block and built with block.
C27_Witness ==
    /\ Probed
    /\ probe.score = ScoreBlock
    /\ probe.decided = BLOCK
    /\ probe.passed = BLOCK
    /\ probe.result.ok
    /\ probe.result.value.action = BLOCK

Violation == Explained /\ matched_rules # <<>>

\* C28: the severity tier and the closing sentence of an explanation go
\* together: the severe tier comes only with the block closing, the mild
\* tier never with the block closing, and the moderate tier comes with the
\* flag closing for scores in [1.5, 2.0) and with the block closing for
\* scores in [2.0, 2.5).
C28_TierAndClosing ==
    Violation =>
        /\ explanation.severity = "severe" => explanation.closing = "blocked"
        /\ explanation.severity = "mild" => explanation.closing # "blocked"
        /\ explanation.severity = "moderate" =>
              /\ final_score >= ScoreModerate /\ final_score < ScoreSevere
              /\ final_score < ScoreBlock => explanation.closing = "flagged"
              /\ final_score >= ScoreBlock => explanation.closing = "blocked"

\* A moderate violation below 2.0 was explained with the flag closing.
C28_Witness ==
    /\ Violation
    /\ explanation.severity = "moderate"
    /\ final_score < ScoreBlock
    /\ explanation.closing = "flagged"

\* A moderate violation from 2.0 on was explained with the block closing.
C28_WitnessBlocked ==
    /\ Violation
    /\ explanation.severity = "moderate"
    /\ final_score >= ScoreBlock
    /\ explanation.closing = "blocked"

\* A mild violation was explained with the flag closing.
C28_WitnessMild ==
    /\ Violation
    /\ explanation.severity = "mild"
    /\ explanation.closing = "flagged"

CallReturned == pc = "returned" /\ calls[1].outcome.kind = "return"

ModerationFailed(result) == result.explanation.kind = "moderation_failed"

\* The log row agrees with the returned result.
LoggedAs(row, result) ==
    /\ row.post_id = result.post_id
    /\ row.final_score = result.score
    /\ row.action = result.action

\* C29: a moderate_content call writes the log at most once, and only in its
\* log statement; a result returned from the normal path was logged exactly
\* once, with the post_id, score and action of the returned result; a result
\* built in the failure handler ("Moderation failed") is never in the log; a
\* degraded analysis of analyze_content ("Analysis failed") is logged like a
\* normal one.
C29_LoggedOnce ==
    /\ Len(moderation_logs) <= 1
    /\ moderation_logs # <<>> => pc \in {"return", "returned"}
    /\ CallReturned =>
          IF ModerationFailed(calls[1].outcome.value)
          THEN moderation_logs = <<>>
          ELSE /\ Len(moderation_logs) = 1
               /\ LoggedAs(moderation_logs[1], calls[1].outcome.value)
    /\ (CallReturned /\ AnalysisFailedIn(calls[1].outcome.value)) =>
          /\ Len(moderation_logs) = 1
          /\ LoggedAs(moderation_logs[1], calls[1].outcome.value)

\* A call whose lookup failed has returned the degraded analysis and
\* logged it.
C29_Witness ==
    /\ CallReturned
    /\ AnalysisFailedIn(calls[1].outcome.value)
    /\ Len(moderation_logs) = 1
    /\ moderation_logs[1].final_score = 0
    /\ moderation_logs[1].action = REVIEW

\* A call whose log write raised has returned the handler's result; the
\* log is empty.
C29_WitnessHandler ==
    /\ CallReturned
    /\ ModerationFailed(calls[1].outcome.value)
    /\ calls[1].outcome.value.explanation.reason = "log_moderation"
    /\ moderation_logs = <<>>

\* A call on a content without matches has returned on the normal path.
C29_WitnessNormal ==
    /\ CallReturned
    /\ calls[1].outcome.value.explanation.kind = "safe"
    /\ calls[1].content # {}
    /\ Len(moderation_logs) = 1

\* The sum of the counts of a distribution.
RECURSIVE SumOver(_, _)
SumOver(counts, keys) ==
    IF keys = {} THEN 0
    ELSE LET key == CHOOSE k \in keys : TRUE
         IN  counts[key] + SumOver(counts, keys \ {key})

SumOfCounts(counts) == SumOver(counts, DOMAIN counts)

ActiveRuleCount == Cardinality({i \in 1..Len(rules) : rules[i].is_active})

\* C30: get_rule_statistics never raises and is consistent: when the store
\* answers, total_rules is the number of active rules and the sum of the
\* category counts, of the severity counts and of the pattern-type counts;
\* when the store fails, total_rules is 0 and the three distributions are
\* empty.
C30_StatisticsConsistent ==
    last.op = "get_rule_statistics" =>
        /\ last.outcome.kind = "return"
        /\ LET stats == last.outcome.value
           IN  IF last.store_fails
               THEN /\ stats.total_rules = 0
                    /\ DOMAIN stats.category_distribution = {}
                    /\ DOMAIN stats.severity_distribution = {}
                    /\ DOMAIN stats.pattern_type_distribution = {}
               ELSE /\ stats.total_rules = ActiveRuleCount
                    /\ stats.total_rules = SumOfCounts(stats.category_distribution)
                    /\ stats.total_rules = SumOfCounts(stats.severity_distribution)
                    /\ stats.total_rules
                         = SumOfCounts(stats.pattern_type_distribution)

\* The statistics of a store with an active and an inactive rule.
C30_Witness ==
    /\ last.op = "get_rule_statistics"
    /\ ~last.store_fails
    /\ Len(rules) = 2
    /\ last.outcome.value.total_rules = 1
    /\ DOMAIN last.outcome.value.category_distribution # {}

\* The statistics asked of a store that fails, with rules in it.
C30_WitnessFailed ==
    /\ last.op = "get_rule_statistics"
    /\ last.store_fails
    /\ ActiveRuleCount > 0
    /\ last.outcome.value.total_rules = 0

====
